---- MODULE Spec2Model ----
(***************************************************************************)
(* Battery-aware AI task scheduler of arm-adaptive-intelligence:           *)
(*   src/src/battery_scheduler/scheduler.py      (AIScheduler)             *)
(*   src/src/battery_scheduler/predictor.py      (BatteryPredictor)        *)
(*   src/src/battery_scheduler/power_monitor.py  (PowerMonitor)            *)
(*                                                                         *)
(* Units.  Battery percent and drain are floats in the source; here they   *)
(* are integers in thousandths of a percent (80.0 % is 80000, the default  *)
(* task's drain of 1.05 % is 1050).  Task descriptions are given in        *)
(* thousandths of the feature they become (compute_ops / 1e9,              *)
(* memory_mb / 1000, duration_seconds).  The values drawn keep the         *)
(* arithmetic exact.                                                       *)
(*                                                                         *)
(* Time.  clock is the last value time.time() returned to schedule(),      *)
(* counted in ticks finer than a millisecond; the next call reads that     *)
(* value or a later one, and int(time.time() * 1000) is                    *)
(* clock \div TicksPerMs.  One call's two reads (the id at line 55, the     *)
(* scheduled_time at line 78) are taken as one reading.                    *)
(* The durations of the loop's sleeps are not                              *)
(* modelled: a sleep is a position of the loop thread that other threads   *)
(* interleave with.  The timestamps of the calibration records and the     *)
(* log lines are not modelled.                                             *)
(***************************************************************************)
EXTENDS Integers, Sequences, FiniteSets, TLC

VARIABLES
    clock,            \* the last time.time() a schedule() call read, in ticks
    battery,          \* what psutil.sensors_battery() returns now
    thermal,          \* status of PowerMonitor.get_thermal_status() now
    task_queue,       \* AIScheduler.task_queue: the PriorityQueue's heap list
    is_running,       \* AIScheduler.is_running
    scheduler_thread, \* AIScheduler.scheduler_thread: a loop thread id or NoThread
    loops,            \* the threads running _scheduler_loop: position and locals
    history,          \* BatteryPredictor.history
    ctl,              \* the callers of start() and stop(): position and locals
    calls,            \* log of the schedule() calls: the id of each, or that it raised
    dequeued,         \* log of the entries the loop's get() returned
    probe             \* inputs and results of the rule functions applied alone

vars == <<clock, battery, thermal, task_queue, is_running, scheduler_thread,
          loops, ctl, history, calls, dequeued, probe>>

\* Python's None: where a float is expected (power_monitor.py:29,
\* predictor.py:82), where a battery is (psutil.sensors_battery()), where a
\* thread is (scheduler.py:22), and the locals of a loop that holds no task
NoneFloat == -1
NoBattery == [battery |-> "None"]
NoThread == 0
NoTask == [task |-> "None"]

\* ---------------------------------------------------------------- bounds

\* schedule() calls in one behaviour
MaxSubmit == 2
\* last tick of the clock
MaxClock == 2
\* clock ticks in one millisecond
TicksPerMs == 2
\* deferral cycles of one task
MaxDefer == 2
\* deferral cycles of one task where a task is followed from 45 to past 50
MaxDeferLong == 6
\* schedule() calls in one behaviour where the queue is filled before it is
\* drained; each call reads the clock one tick after the call before
MaxSubmitHeap == 7
\* schedule() calls in one behaviour where denied tasks share the queue with
\* an admitted one; each call reads the clock one tick after the call before
MaxSubmitLive == 3

\* ------------------------------------------------------ program constants

\* scheduler.py:99, the battery percent below which a task is denied
RuleBatteryPercent == 20
\* predictor.py:128, power.battery_threshold_percent's default
BatteryThresholdPercent == 20
\* predictor.py:103, the percent below which the drain is scaled by 1.2
LowBatteryPercent == 20
\* predictor.py:106, the cap of the estimated drain, in percent
MaxDrainPercent == 10
\* scheduler.py:128, the bias of a safe task
SafeBias == 5
\* scheduler.py:180, the priority below which a denied task is retried
RetryBelow == 50
\* scheduler.py:125, the value of a priority string the map does not hold
DefaultPriority == 50
\* predictor.py:87-91, the state substituted when there is no battery
DefaultPercent == 80
DefaultTimeLeft == 7200

Milli(x) == x * 1000

\* ------------------------------------------------------------- predictor

\* Python's truth of an Optional[float]: None and 0 are false
Truthy(x) == x # NoneFloat /\ x # 0

\* predictor.py:70-91.  sensor is NoBattery or [percent, power_plugged,
\* secsleft]; psutil gives secsleft -1 when the time left is unknown.
GetCurrentBatteryState(sensor) ==
    IF sensor # NoBattery
    THEN [percent |-> sensor.percent,
          plugged_in |-> sensor.power_plugged,
          time_left |-> IF sensor.secsleft # -1 THEN sensor.secsleft
                        ELSE NoneFloat]
    ELSE [percent |-> Milli(DefaultPercent),
          plugged_in |-> FALSE,
          time_left |-> DefaultTimeLeft]

\* predictor.py:53-68: the three features the prediction reads, in thousandths.
ExtractFeatures(desc) ==
    <<desc.compute_ops, desc.memory_mb, desc.duration_seconds>>

Min(a, b) == IF a < b THEN a ELSE b

\* The prediction with the scaling on the other side of the 20 percent line.
RunPredictionScalesAbove(features, state) ==
    LET base    == ((features[1] + features[2] + features[3]) * 5) \div 10
        plugged == IF state.plugged_in THEN (base * 5) \div 10 ELSE base
        low     == IF state.percent >= Milli(LowBatteryPercent)
                   THEN (plugged * 12) \div 10 ELSE plugged
    IN  Min(low, Milli(MaxDrainPercent))

\* predictor.py:93-106, in thousandths of a percent.
RunPrediction(features, state) ==
    LET base    == ((features[1] + features[2] + features[3]) * 5) \div 10
        plugged == IF state.plugged_in THEN (base * 5) \div 10 ELSE base
        low     == IF state.percent < Milli(LowBatteryPercent)
                   THEN (plugged * 12) \div 10 ELSE plugged
    IN  Min(low, Milli(MaxDrainPercent))

\* predictor.py:108-120, in hundredths of a minute (the float quotient
\* rounded down): drain * (time_left / percent) / 60, or drain * 5.
EstimateTimeImpact(drain, state) ==
    IF Truthy(state.time_left) /\ state.percent > 0
    THEN (drain * state.time_left * 5) \div (state.percent * 3)
    ELSE drain \div 2

\* predictor.py:122-136 with power.battery_threshold_percent of the
\* configuration at threshold (in thousandths of a percent)
IsSafeToExecuteAt(drain, state, threshold) ==
    IF state.plugged_in THEN TRUE
    ELSE IF state.percent - drain < threshold THEN FALSE
    ELSE TRUE

\* predictor.py:122-136 with a configuration that leaves the threshold out
IsSafeToExecute(drain, state) ==
    IsSafeToExecuteAt(drain, state, Milli(BatteryThresholdPercent))

\* predictor.py:26-51
PredictDrain(desc, sensor) ==
    LET state == GetCurrentBatteryState(sensor)
        drain == RunPrediction(ExtractFeatures(desc), state)
    IN  [estimated_drain_percent |-> drain,
         estimated_time_minutes  |-> EstimateTimeImpact(drain, state),
         current_battery_percent |-> state.percent,
         safe_to_execute         |-> IsSafeToExecute(drain, state)]

\* scheduler.py:57-62, the description a call without one gets
DefaultDescription ==
    [compute_ops |-> 1000, memory_mb |-> 100, duration_seconds |-> 1000]

\* ---------------------------------------------------------- power monitor

\* power_monitor.py:69-74
IsThermalThrottling(status) == status = "throttling"

\* ------------------------------------------------------- admission rules

\* The rules with the thermal rule not excepting critical tasks.
RulesThermalDeniesCritical(prediction, priority, status) ==
    IF prediction.current_battery_percent < Milli(RuleBatteryPercent)
       /\ priority # "critical"
    THEN [admitted |-> FALSE, reason |-> "Battery below threshold"]
    ELSE IF ~prediction.safe_to_execute /\ priority # "critical"
    THEN [admitted |-> FALSE, reason |-> "Predicted drain too high"]
    ELSE IF IsThermalThrottling(status)
    THEN [admitted |-> FALSE, reason |-> "Thermal throttling detected"]
    ELSE IF priority = "critical"
    THEN [admitted |-> TRUE, reason |-> "Critical priority overrides constraints"]
    ELSE [admitted |-> TRUE, reason |-> "All checks passed"]

\* The rules with the thermal rule tried before the drain rule.
RulesThermalFirst(prediction, priority, status) ==
    IF prediction.current_battery_percent < Milli(RuleBatteryPercent)
       /\ priority # "critical"
    THEN [admitted |-> FALSE, reason |-> "Battery below threshold"]
    ELSE IF IsThermalThrottling(status) /\ priority # "critical"
    THEN [admitted |-> FALSE, reason |-> "Thermal throttling detected"]
    ELSE IF ~prediction.safe_to_execute /\ priority # "critical"
    THEN [admitted |-> FALSE, reason |-> "Predicted drain too high"]
    ELSE IF priority = "critical"
    THEN [admitted |-> TRUE, reason |-> "Critical priority overrides constraints"]
    ELSE [admitted |-> TRUE, reason |-> "All checks passed"]

\* scheduler.py:87-112
ApplySchedulingRules(prediction, priority, status) ==
    IF prediction.current_battery_percent < Milli(RuleBatteryPercent)
       /\ priority # "critical"
    THEN [admitted |-> FALSE, reason |-> "Battery below threshold"]
    ELSE IF ~prediction.safe_to_execute /\ priority # "critical"
    THEN [admitted |-> FALSE, reason |-> "Predicted drain too high"]
    ELSE IF IsThermalThrottling(status) /\ priority # "critical"
    THEN [admitted |-> FALSE, reason |-> "Thermal throttling detected"]
    ELSE IF priority = "critical"
    THEN [admitted |-> TRUE, reason |-> "Critical priority overrides constraints"]
    ELSE [admitted |-> TRUE, reason |-> "All checks passed"]

\* The map with a string it does not hold taken for low.
PriorityMapUnknownIsLow(priority_str) ==
    CASE priority_str = "critical" -> 0
      [] priority_str = "high"     -> 10
      [] priority_str = "normal"   -> 50
      [] OTHER                     -> 100

\* scheduler.py:118-125: priority_map.get(priority_str, 50)
PriorityMap(priority_str) ==
    CASE priority_str = "critical" -> 0
      [] priority_str = "high"     -> 10
      [] priority_str = "normal"   -> 50
      [] priority_str = "low"      -> 100
      [] OTHER                     -> DefaultPriority

\* The priority with a bias as large as the gap between two classes.
CalculatePriorityBias10(priority_str, prediction) ==
    IF prediction.safe_to_execute
    THEN PriorityMap(priority_str) - 10
    ELSE PriorityMap(priority_str)

\* The priority with the bias added twice.
CalculatePriorityBiasTwice(priority_str, prediction) ==
    IF prediction.safe_to_execute
    THEN PriorityMap(priority_str) - SafeBias - SafeBias
    ELSE PriorityMap(priority_str)

\* scheduler.py:114-130
CalculatePriority(priority_str, prediction) ==
    IF prediction.safe_to_execute
    THEN PriorityMap(priority_str) - SafeBias
    ELSE PriorityMap(priority_str)

\* The retry test with the bound at the low class's value.
ShouldRetryBelowLow(task) == task.priority < PriorityMap("low")

\* scheduler.py:176-180
ShouldRetry(task) == task.priority < RetryBelow

\* ------------------------------------------------------------ the queue
\* task_queue is a queue.PriorityQueue: a list kept as a binary heap by heapq
\* (CPython's _heapq), under the queue's mutex.  An entry is the tuple
\* (priority_value, task) of scheduler.py:81 and :147, here [key, task].

\* The task dict of scheduler.py:70-79.  The model's task carries one more
\* field, seq (the ordinal of the schedule() call that made it), which the
\* program does not have; Dict leaves it out.
Dict(task) ==
    [id |-> task.id, func |-> task.func, description |-> task.description,
     prediction |-> task.prediction, priority |-> task.priority,
     should_execute |-> task.should_execute, reason |-> task.reason,
     scheduled_time |-> task.scheduled_time]

\* a < b on two entries, as Python compares the tuples: by key; on equal keys
\* by the dicts, which are equal (so a < b is False) or raise TypeError.
EntryLess(a, b) ==
    IF a.key < b.key THEN "True"
    ELSE IF a.key > b.key THEN "False"
    ELSE IF Dict(a.task) = Dict(b.task) THEN "False"
    ELSE "TypeError"

At(heap, pos) == heap[pos + 1]

Swap(heap, i, j) ==
    [heap EXCEPT ![i + 1] = heap[j + 1], ![j + 1] = heap[i + 1]]

\* _heapq.c siftdown: [heap, raised]
RECURSIVE SiftDown(_, _, _)
SiftDown(heap, startpos, pos) ==
    IF pos <= startpos THEN [heap |-> heap, raised |-> FALSE]
    ELSE LET parentpos == (pos - 1) \div 2
             cmp       == EntryLess(At(heap, pos), At(heap, parentpos))
         IN  IF cmp = "TypeError" THEN [heap |-> heap, raised |-> TRUE]
             ELSE IF cmp = "False" THEN [heap |-> heap, raised |-> FALSE]
             ELSE SiftDown(Swap(heap, pos, parentpos), startpos, parentpos)

\* _heapq.c siftup's loop: moves the smaller child up from pos to a leaf;
\* [heap, pos, raised]
RECURSIVE SiftUpLoop(_, _)
SiftUpLoop(heap, pos) ==
    LET endpos   == Len(heap)
        limit    == endpos \div 2
        childpos == 2 * pos + 1
    IN  IF pos >= limit THEN [heap |-> heap, pos |-> pos, raised |-> FALSE]
        ELSE IF childpos + 1 < endpos
        THEN LET cmp == EntryLess(At(heap, childpos), At(heap, childpos + 1))
                 c   == IF cmp = "True" THEN childpos ELSE childpos + 1
             IN  IF cmp = "TypeError"
                 THEN [heap |-> heap, pos |-> pos, raised |-> TRUE]
                 ELSE SiftUpLoop(Swap(heap, c, pos), c)
        ELSE SiftUpLoop(Swap(heap, childpos, pos), childpos)

\* _heapq.c siftup
SiftUp(heap, pos) ==
    LET up == SiftUpLoop(heap, pos)
    IN  IF up.raised THEN [heap |-> up.heap, raised |-> TRUE]
        ELSE SiftDown(up.heap, pos, up.pos)

\* heapq.heappush: the item is appended, then sifted; [heap, raised]
HeapPush(heap, item) == SiftDown(Append(heap, item), 0, Len(heap))

\* heapq.heappop of a non-empty heap: [heap, item, raised]; when the sift
\* raises, the popped item is returned to nobody.
HeapPop(heap) ==
    LET n       == Len(heap)
        lastelt == heap[n]
        rest    == SubSeq(heap, 1, n - 1)
    IN  IF n = 1 THEN [heap |-> rest, item |-> lastelt, raised |-> FALSE]
        ELSE LET sifted == SiftUp([rest EXCEPT ![1] = lastelt], 0)
             IN  [heap |-> sifted.heap, item |-> heap[1],
                  raised |-> sifted.raised]

\* PriorityQueue.put (scheduler.py:81, :147); the queue has no maxsize, so
\* put never waits
QueuePut(heap, item) == HeapPush(heap, item)

\* PriorityQueue.get (scheduler.py:138) on a non-empty queue
QueueGet(heap) == HeapPop(heap)

\* PriorityQueue.empty (scheduler.py:137)
QueueEmpty(heap) == Len(heap) = 0

\* power_monitor.py:19-29: the percent read, or None without a battery
GetBatteryPercent(sensor) ==
    IF sensor # NoBattery THEN sensor.percent ELSE NoneFloat

\* scheduler.py:169
ActualDrain(battery_before, battery_after) ==
    IF Truthy(battery_before) /\ Truthy(battery_after)
    THEN battery_before - battery_after
    ELSE 0

\* ------------------------------------------------------------ the state

\* the threads that may run _scheduler_loop, and the callers of start/stop
LoopIds == {1, 2}
Controllers == {"c1", "c2"}

\* what the battery sensor can read while the scheduler runs; the device
\* stays cool (the thermal rule is exercised by the rule functions alone)
Sensors ==
    {[percent |-> Milli(15), power_plugged |-> FALSE, secsleft |-> 3600],
     [percent |-> Milli(80), power_plugged |-> FALSE, secsleft |-> 3600]}

\* the arguments of the schedule() calls
Priorities == {"critical", "high", "low"}
Funcs == {"task_func"}
Descriptions == {DefaultDescription}

NoLocals == [priority |-> 0, task |-> NoTask, battery_before |-> NoneFloat]
NoProbe == [phase |-> "none"]
Unborn == [pc |-> "unborn"] @@ NoLocals
Idle == [pc |-> "idle", target |-> NoThread]

\* scheduler.py:15-22, with the clock at 0, the battery at any reading and
\* the device cool
Init ==
    /\ clock = 0
    /\ battery \in Sensors
    /\ thermal = "normal"
    /\ task_queue = <<>>
    /\ is_running = FALSE
    /\ scheduler_thread = NoThread
    /\ loops = [l \in LoopIds |-> Unborn]
    /\ ctl = [c \in Controllers |-> Idle]
    /\ history = <<>>
    /\ calls = <<>>
    /\ dequeued = <<>>
    /\ probe = NoProbe

\* ------------------------------------------------------- the environment

BatteryChange ==
    /\ battery' \in Sensors \ {battery}
    /\ UNCHANGED <<clock, thermal, task_queue, is_running, scheduler_thread,
                   loops, ctl, history, calls, dequeued, probe>>

\* ------------------------------------------------------------ schedule()

\* scheduler.py:55
TaskId(now) == now \div TicksPerMs

\* scheduler.py:55-79: the task a schedule() call builds when the clock reads
\* now and the sensors read sensor and status
BuildTask(task_func, priority, task_description, now, sensor, status, n) ==
    LET prediction == PredictDrain(task_description, sensor)
        rule       == ApplySchedulingRules(prediction, priority, status)
    IN  [id             |-> TaskId(now),
         func           |-> task_func,
         description    |-> task_description,
         prediction     |-> prediction,
         priority       |-> CalculatePriority(priority, prediction),
         should_execute |-> rule.admitted,
         reason         |-> rule.reason,
         scheduled_time |-> now,
         seq            |-> n]

\* A schedule() that waits while a loop thread is inside a task body or a
\* deferral sleep.
ScheduleWaitsForLoop(task_func, priority, task_description, now) ==
    /\ \A l \in DOMAIN loops : loops[l].pc \notin {"execute", "sleep"}
    /\ Len(calls) < MaxSubmit
    /\ now \in clock .. MaxClock
    /\ clock' = now
    /\ LET task == BuildTask(task_func, priority, task_description, now,
                             battery, thermal, Len(calls) + 1)
           put  == QueuePut(task_queue, [key |-> task.priority, task |-> task])
       IN  /\ task_queue' = put.heap
           /\ calls' = Append(calls, [id |-> task.id, raised |-> put.raised])
    /\ UNCHANGED <<battery, thermal, is_running, scheduler_thread, loops, ctl,
                   history, dequeued, probe>>

\* scheduler.py:43-85.  Lines 55-79 read the clock and the sensors and touch
\* nothing shared; the put of line 81 runs under the queue's mutex.  A call
\* whose put raises returns no id.  There are at most submits calls, and the
\* clock reads at most last.
ScheduleWithin(task_func, priority, task_description, now, submits, last) ==
    /\ Len(calls) < submits
    /\ now \in clock .. last
    /\ clock' = now
    /\ LET task == BuildTask(task_func, priority, task_description, now,
                             battery, thermal, Len(calls) + 1)
           put  == QueuePut(task_queue, [key |-> task.priority, task |-> task])
       IN  /\ task_queue' = put.heap
           /\ calls' = Append(calls, [id |-> task.id, raised |-> put.raised])
    /\ UNCHANGED <<battery, thermal, is_running, scheduler_thread, loops, ctl,
                   history, dequeued, probe>>

\* scheduler.py:43-85
Schedule(task_func, priority, task_description, now) ==
    ScheduleWithin(task_func, priority, task_description, now,
                   MaxSubmit, MaxClock)

\* ------------------------------------------------------ start() and stop()

Dead(l) == loops[l].pc \in {"unborn", "exited", "crashed"}

\* a thread id that names no live loop and no thread a stop() is joining
Free(l) ==
    /\ Dead(l)
    /\ \A c \in Controllers : ~(ctl[c].pc = "join" /\ ctl[c].target = l)

\* the Thread object a start() makes, named by the least free id
NewThread == CHOOSE l \in LoopIds : Free(l) /\ \A k \in LoopIds : Free(k) => l <= k

\* scheduler.py:28, the test; a start() that finds the scheduler running returns
StartCheck(c) ==
    /\ ctl[c].pc = "idle"
    /\ ctl' = IF is_running THEN ctl ELSE [ctl EXCEPT ![c].pc = "start"]
    /\ UNCHANGED <<clock, battery, thermal, task_queue, is_running,
                   scheduler_thread, loops, history, calls, dequeued, probe>>

\* scheduler.py:29-32
StartThread(c) ==
    /\ ctl[c].pc = "start"
    /\ \E l \in LoopIds : Free(l)
    /\ is_running' = TRUE
    /\ scheduler_thread' = NewThread
    /\ loops' = [loops EXCEPT ![NewThread] = [pc |-> "while"] @@ NoLocals]
    /\ ctl' = [ctl EXCEPT ![c] = Idle]
    /\ UNCHANGED <<clock, battery, thermal, task_queue, history, calls,
                   dequeued, probe>>

\* scheduler.py:38-39
StopFlag(c) ==
    /\ ctl[c].pc = "idle"
    /\ is_running' = FALSE
    /\ ctl' = IF scheduler_thread # NoThread
              THEN [ctl EXCEPT ![c] = [pc |-> "join", target |-> scheduler_thread]]
              ELSE ctl
    /\ UNCHANGED <<clock, battery, thermal, task_queue, scheduler_thread, loops,
                   history, calls, dequeued, probe>>

\* scheduler.py:40-41: join returns once the thread has ended
StopJoin(c) ==
    /\ ctl[c].pc = "join"
    /\ loops[ctl[c].target].pc \in {"exited", "crashed"}
    /\ ctl' = [ctl EXCEPT ![c] = Idle]
    /\ UNCHANGED <<clock, battery, thermal, task_queue, is_running,
                   scheduler_thread, loops, history, calls, dequeued, probe>>

\* ------------------------------------------------------ _scheduler_loop

\* scheduler.py:136 (and the sleep of line 149 before it): the test of the flag
LoopTest(l) ==
    /\ loops[l].pc = "while"
    /\ loops' = [loops EXCEPT ![l].pc = IF is_running THEN "poll" ELSE "exited"]
    /\ UNCHANGED <<clock, battery, thermal, task_queue, is_running,
                   scheduler_thread, ctl, history, calls, dequeued, probe>>

\* scheduler.py:137
LoopPoll(l) ==
    /\ loops[l].pc = "poll"
    /\ loops' = [loops EXCEPT ![l].pc = IF QueueEmpty(task_queue) THEN "while"
                                        ELSE "get"]
    /\ UNCHANGED <<clock, battery, thermal, task_queue, is_running,
                   scheduler_thread, ctl, history, calls, dequeued, probe>>

\* scheduler.py:138-146 and 155-162: get() waits while the queue is empty; a
\* TypeError of the heap ends the thread; an admitted task's body is invoked,
\* a denied one is held through the sleep of line 146 or let go
LoopGet(l) ==
    /\ loops[l].pc = "get"
    /\ ~QueueEmpty(task_queue)
    /\ LET got  == QueueGet(task_queue)
           task == got.item.task
       IN  /\ task_queue' = got.heap
           /\ IF got.raised
              THEN /\ loops' = [loops EXCEPT ![l] = [pc |-> "crashed"] @@ NoLocals]
                   /\ UNCHANGED dequeued
              ELSE /\ dequeued' = Append(dequeued,
                          [key |-> got.item.key, id |-> task.id,
                           seq |-> task.seq, invoked |-> task.should_execute,
                           body |-> "none"])
                   /\ loops' = [loops EXCEPT ![l] =
                          IF task.should_execute
                          THEN [pc |-> "execute", priority |-> got.item.key,
                                task |-> task,
                                battery_before |-> GetBatteryPercent(battery)]
                          ELSE IF ShouldRetry(task)
                          THEN [pc |-> "sleep", priority |-> got.item.key,
                                task |-> task, battery_before |-> NoneFloat]
                          ELSE [pc |-> "while"] @@ NoLocals]
    /\ UNCHANGED <<clock, battery, thermal, is_running, scheduler_thread, ctl,
                   history, calls, probe>>

\* how a task body ends: it returns, or it raises an Exception
Outcomes == {"returned", "raised"}

\* The try of scheduler.py:161-164 with an except clause that catches nothing.
CaughtNothing(outcome) == outcome = "returned"

\* scheduler.py:161-164: whether _execute_task goes on to line 166 after the
\* body ended; except Exception catches what the body raises
Caught(outcome) == outcome \in {"returned", "raised"}

\* the log entry of the task a loop is executing, with the way its body ended
BodyEnded(log, task, outcome) ==
    [i \in DOMAIN log |->
        IF log[i].seq = task.seq /\ log[i].invoked
        THEN [log[i] EXCEPT !.body = outcome] ELSE log[i]]

\* scheduler.py:162-174: the body ends; a caught end goes on to line 166 and
\* the drain is recorded, an uncaught exception ends the loop thread
LoopExecuteEnd(l, outcome) ==
    /\ loops[l].pc = "execute"
    /\ dequeued' = BodyEnded(dequeued, loops[l].task, outcome)
    /\ IF Caught(outcome)
       THEN /\ history' = Append(history,
                   [task_id |-> loops[l].task.id,
                    actual_drain |-> ActualDrain(loops[l].battery_before,
                                                 GetBatteryPercent(battery))])
            /\ loops' = [loops EXCEPT ![l] = [pc |-> "while"] @@ NoLocals]
       ELSE /\ UNCHANGED history
            /\ loops' = [loops EXCEPT ![l] = [pc |-> "crashed"] @@ NoLocals]
    /\ UNCHANGED <<clock, battery, thermal, task_queue, is_running,
                   scheduler_thread, ctl, calls, probe>>

\* The put-back of a loop that evaluates the task again, against the battery
\* and the thermal status read when the deferral sleep ends.
LoopRequeueEvaluatesAgain(l, cap) ==
    /\ loops[l].pc = "sleep"
    /\ loops[l].priority - loops[l].task.priority < cap
    /\ LET prediction == PredictDrain(loops[l].task.description, battery)
           rule       == ApplySchedulingRules(prediction, "normal", thermal)
           task       == [loops[l].task EXCEPT
                             !.prediction = prediction,
                             !.should_execute = rule.admitted,
                             !.reason = rule.reason]
           put        == QueuePut(task_queue, [key |-> loops[l].priority + 1,
                                               task |-> task])
       IN  /\ task_queue' = put.heap
           /\ loops' = [loops EXCEPT ![l] =
                  [pc |-> IF put.raised THEN "crashed" ELSE "while"] @@ NoLocals]
    /\ UNCHANGED <<clock, battery, thermal, is_running, scheduler_thread, ctl,
                   history, calls, dequeued, probe>>

\* scheduler.py:146-147: the sleep ends and the task is put back, for a task
\* that has been through fewer than cap deferral cycles
LoopRequeueUpTo(l, cap) ==
    /\ loops[l].pc = "sleep"
    /\ loops[l].priority - loops[l].task.priority < cap
    /\ LET put == QueuePut(task_queue, [key |-> loops[l].priority + 1,
                                        task |-> loops[l].task])
       IN  /\ task_queue' = put.heap
           /\ loops' = [loops EXCEPT ![l] =
                  [pc |-> IF put.raised THEN "crashed" ELSE "while"] @@ NoLocals]
    /\ UNCHANGED <<clock, battery, thermal, is_running, scheduler_thread, ctl,
                   history, calls, dequeued, probe>>

\* scheduler.py:146-147
LoopRequeue(l) == LoopRequeueUpTo(l, MaxDefer)

\* ------------------------------------------------------- specification

\* One caller of start() and stop(), any number of callers of schedule(); the
\* task bodies return.
Next ==
    \/ BatteryChange
    \/ \E f \in Funcs, p \in Priorities, d \in Descriptions,
          now \in 0 .. MaxClock : Schedule(f, p, d, now)
    \/ StartCheck("c1")
    \/ StartThread("c1")
    \/ StopFlag("c1")
    \/ StopJoin("c1")
    \/ \E l \in LoopIds : LoopTest(l)
    \/ \E l \in LoopIds : LoopPoll(l)
    \/ \E l \in LoopIds : LoopGet(l)
    \/ \E l \in LoopIds : LoopExecuteEnd(l, "returned")
    \/ \E l \in LoopIds : LoopRequeue(l)

Spec == Init /\ [][Next]_vars

\* scheduler.py:15-22, with the device cool or throttling
InitBodies ==
    /\ clock = 0
    /\ battery \in Sensors
    /\ thermal \in {"normal", "throttling"}
    /\ task_queue = <<>>
    /\ is_running = FALSE
    /\ scheduler_thread = NoThread
    /\ loops = [l \in LoopIds |-> Unborn]
    /\ ctl = [c \in Controllers |-> Idle]
    /\ history = <<>>
    /\ calls = <<>>
    /\ dequeued = <<>>
    /\ probe = NoProbe

\* One caller of start() and stop(); a task body returns or raises; the battery
\* and the thermal status keep the reading they start with.
NextBodies ==
    \/ \E f \in Funcs, p \in Priorities, d \in Descriptions,
          now \in 0 .. MaxClock : Schedule(f, p, d, now)
    \/ StartCheck("c1")
    \/ StartThread("c1")
    \/ StopFlag("c1")
    \/ StopJoin("c1")
    \/ \E l \in LoopIds : LoopTest(l)
    \/ \E l \in LoopIds : LoopPoll(l)
    \/ \E l \in LoopIds : LoopGet(l)
    \/ \E l \in LoopIds, o \in Outcomes : LoopExecuteEnd(l, o)
    \/ \E l \in LoopIds : LoopRequeue(l)

SpecBodies == InitBodies /\ [][NextBodies]_vars

\* scheduler.py:15-22, with the device throttling
InitDefer ==
    /\ clock = 0
    /\ battery \in Sensors
    /\ thermal = "throttling"
    /\ task_queue = <<>>
    /\ is_running = FALSE
    /\ scheduler_thread = NoThread
    /\ loops = [l \in LoopIds |-> Unborn]
    /\ ctl = [c \in Controllers |-> Idle]
    /\ history = <<>>
    /\ calls = <<>>
    /\ dequeued = <<>>
    /\ probe = NoProbe

\* One caller of start() and stop(); critical and normal tasks on a
\* throttling device, the normal ones followed through MaxDeferLong cycles.
NextDefer ==
    \/ \E f \in Funcs, p \in {"critical", "normal"}, d \in Descriptions,
          now \in 0 .. MaxClock : Schedule(f, p, d, now)
    \/ StartCheck("c1")
    \/ StartThread("c1")
    \/ StopFlag("c1")
    \/ StopJoin("c1")
    \/ \E l \in LoopIds : LoopTest(l)
    \/ \E l \in LoopIds : LoopPoll(l)
    \/ \E l \in LoopIds : LoopGet(l)
    \/ \E l \in LoopIds : LoopExecuteEnd(l, "returned")
    \/ \E l \in LoopIds : LoopRequeueUpTo(l, MaxDeferLong)

SpecDefer == InitDefer /\ [][NextDefer]_vars

\* scheduler.py:15-22, with the battery at 80 percent and the device cool
InitHeap ==
    /\ clock = 0
    /\ battery = [percent |-> Milli(80), power_plugged |-> FALSE,
                  secsleft |-> 3600]
    /\ thermal = "normal"
    /\ task_queue = <<>>
    /\ is_running = FALSE
    /\ scheduler_thread = NoThread
    /\ loops = [l \in LoopIds |-> Unborn]
    /\ ctl = [c \in Controllers |-> Idle]
    /\ history = <<>>
    /\ calls = <<>>
    /\ dequeued = <<>>
    /\ probe = NoProbe

\* One caller of start() and stop(), who restarts the scheduler when its loop
\* thread has ended; up to MaxSubmitHeap tasks, all admitted, are scheduled
\* one clock tick apart before the first start().
NextHeap ==
    \/ \E f \in Funcs, p \in Priorities, d \in Descriptions :
          /\ scheduler_thread = NoThread
          /\ ScheduleWithin(f, p, d, clock + 1, MaxSubmitHeap, MaxSubmitHeap)
    \/ StartCheck("c1")
    \/ StartThread("c1")
    \/ StopFlag("c1")
    \/ StopJoin("c1")
    \/ \E l \in LoopIds : LoopTest(l)
    \/ \E l \in LoopIds : LoopPoll(l)
    \/ \E l \in LoopIds : LoopGet(l)
    \/ \E l \in LoopIds : LoopExecuteEnd(l, "returned")

SpecHeap == InitHeap /\ [][NextHeap]_vars

\* Two callers of start() and stop() beside the callers of schedule(); a task
\* body returns or raises; the battery keeps the reading it starts with.
NextThreads ==
    \/ \E f \in Funcs, p \in Priorities, d \in Descriptions,
          now \in 0 .. MaxClock : Schedule(f, p, d, now)
    \/ \E c \in Controllers : StartCheck(c)
    \/ \E c \in Controllers : StartThread(c)
    \/ \E c \in Controllers : StopFlag(c)
    \/ \E c \in Controllers : StopJoin(c)
    \/ \E l \in LoopIds : LoopTest(l)
    \/ \E l \in LoopIds : LoopPoll(l)
    \/ \E l \in LoopIds : LoopGet(l)
    \/ \E l \in LoopIds, o \in Outcomes : LoopExecuteEnd(l, o)
    \/ \E l \in LoopIds : LoopRequeue(l)

SpecThreads == Init /\ [][NextThreads]_vars

\* The threads are scheduled: a loop thread that can take its next step takes
\* it (a task body ends, a sleep ends), a start() past its test goes on to
\* start the thread, a join whose thread has ended returns.  The callers owe
\* no further call.
FairThreads ==
    /\ \A l \in LoopIds :
           /\ WF_vars(LoopTest(l))
           /\ WF_vars(LoopPoll(l))
           /\ WF_vars(LoopGet(l))
           /\ WF_vars(\E o \in Outcomes : LoopExecuteEnd(l, o))
           /\ WF_vars(LoopRequeue(l))
    /\ \A c \in Controllers :
           /\ WF_vars(StartThread(c))
           /\ WF_vars(StopJoin(c))

SpecThreadsFair == SpecThreads /\ FairThreads

\* one caller of start() and stop(), the threads scheduled
SpecBodiesFair == SpecBodies /\ FairThreads

\* ------------------------------------------- the rule functions alone
\* scheduler.py:64-68 applied to inputs drawn from wider sets than the
\* scheduler's runs use: probe.subs holds what up to two schedule() calls
\* compute before they build the task.

ProbeSensors ==
    {NoBattery} \cup
    {[percent |-> p, power_plugged |-> b, secsleft |-> 3600] :
        p \in {0, 15000, 20000, 20500, 50000, 80000}, b \in BOOLEAN}
ProbeStatuses == {"normal", "warning", "throttling"}
ProbePriorities == {"critical", "high", "normal", "low", "urgent"}
ProbeDescriptions ==
    {DefaultDescription,
     [compute_ops |-> 20000, memory_mb |-> 1000, duration_seconds |-> 4000]}

InitRules ==
    /\ clock = 0
    /\ battery = NoBattery
    /\ thermal = "normal"
    /\ task_queue = <<>>
    /\ is_running = FALSE
    /\ scheduler_thread = NoThread
    /\ loops = [l \in LoopIds |-> Unborn]
    /\ ctl = [c \in Controllers |-> Idle]
    /\ history = <<>>
    /\ calls = <<>>
    /\ dequeued = <<>>
    /\ probe = [phase |-> "rules", subs |-> <<>>]

\* scheduler.py:64-68
Evaluate(priority, task_description, sensor, status) ==
    /\ probe.phase = "rules"
    /\ Len(probe.subs) < 2
    /\ LET prediction == PredictDrain(task_description, sensor)
           rule       == ApplySchedulingRules(prediction, priority, status)
       IN  probe' = [probe EXCEPT !.subs = Append(@,
               [priority       |-> priority,
                prediction     |-> prediction,
                plugged_in     |-> GetCurrentBatteryState(sensor).plugged_in,
                status         |-> status,
                should_execute |-> rule.admitted,
                reason         |-> rule.reason,
                priority_value |-> CalculatePriority(priority, prediction)])]
    /\ UNCHANGED <<clock, battery, thermal, task_queue, is_running,
                   scheduler_thread, loops, ctl, history, calls, dequeued>>

NextRules ==
    \E p \in ProbePriorities, d \in ProbeDescriptions, b \in ProbeSensors,
       t \in ProbeStatuses : Evaluate(p, d, b, t)

SpecRules == InitRules /\ [][NextRules]_vars

\* ------------------------------------- the safety of a prediction alone
\* predictor.py:40-43 applied under configurations with several thresholds:
\* probe.subs holds what up to two predict_drain() calls compute.

SafeSensors ==
    {NoBattery} \cup
    {[percent |-> p, power_plugged |-> b, secsleft |-> 3600] :
        p \in {0, 10000, 15000, 19000, 20000, 21000, 30000, 50000, 100000},
        b \in BOOLEAN}
SafeThresholds == {Milli(10), Milli(13), Milli(BatteryThresholdPercent)}
SafeDescriptions ==
    ProbeDescriptions \cup
    {[compute_ops |-> 8000, memory_mb |-> 1000, duration_seconds |-> 3000]}

InitSafe ==
    /\ clock = 0
    /\ battery = NoBattery
    /\ thermal = "normal"
    /\ task_queue = <<>>
    /\ is_running = FALSE
    /\ scheduler_thread = NoThread
    /\ loops = [l \in LoopIds |-> Unborn]
    /\ ctl = [c \in Controllers |-> Idle]
    /\ history = <<>>
    /\ calls = <<>>
    /\ dequeued = <<>>
    /\ probe = [phase |-> "safe", subs |-> <<>>]

\* predictor.py:40-43
EvaluateSafe(task_description, sensor, threshold) ==
    /\ probe.phase = "safe"
    /\ Len(probe.subs) < 2
    /\ LET state == GetCurrentBatteryState(sensor)
           drain == RunPrediction(ExtractFeatures(task_description), state)
       IN  probe' = [probe EXCEPT !.subs = Append(@,
               [description     |-> task_description,
                percent         |-> state.percent,
                plugged_in      |-> state.plugged_in,
                threshold       |-> threshold,
                estimated_drain |-> drain,
                safe_to_execute |-> IsSafeToExecuteAt(drain, state, threshold)])]
    /\ UNCHANGED <<clock, battery, thermal, task_queue, is_running,
                   scheduler_thread, loops, ctl, history, calls, dequeued>>

NextSafe ==
    \E d \in SafeDescriptions, b \in SafeSensors, t \in SafeThresholds :
        EvaluateSafe(d, b, t)

SpecSafe == InitSafe /\ [][NextSafe]_vars

\* --------------------------------------- the execution window alone
\* scheduler.py:182-234 applied to a battery reading, a thermal status and an
\* hour of the day: probe.subs holds what one call reads and returns.

\* The window with the low battery tried before the charger.
WindowLowBatteryFirst(sensor, status, current_hour) ==
    LET battery_state   == GetCurrentBatteryState(sensor)
        is_plugged      == battery_state.plugged_in
        battery_percent == battery_state.percent
        is_thermal_ok   == status = "normal"
    IN  IF battery_percent < Milli(20)
        THEN [recommended |-> "when_charging", reason |-> "Battery too low"]
        ELSE IF is_plugged
        THEN [recommended |-> "now", reason |-> "Device is plugged in"]
        ELSE IF battery_percent > Milli(50) /\ is_thermal_ok
        THEN [recommended |-> "now",
              reason |-> "Battery and thermal conditions are good"]
        ELSE IF ~is_thermal_ok
        THEN [recommended |-> "after_cooling", reason |-> "Device needs cooling"]
        ELSE IF 1 <= current_hour /\ current_hour <= 6
        THEN [recommended |-> "now", reason |-> "Low-load window (night time)"]
        ELSE [recommended |-> "deferred",
              reason |-> "Suboptimal conditions, defer if possible"]

\* scheduler.py:182-234
GetOptimalExecutionTime(sensor, status, current_hour) ==
    LET battery_state   == GetCurrentBatteryState(sensor)
        is_plugged      == battery_state.plugged_in
        battery_percent == battery_state.percent
        is_thermal_ok   == status = "normal"
    IN  IF is_plugged
        THEN [recommended |-> "now", reason |-> "Device is plugged in"]
        ELSE IF battery_percent > Milli(50) /\ is_thermal_ok
        THEN [recommended |-> "now",
              reason |-> "Battery and thermal conditions are good"]
        ELSE IF battery_percent < Milli(20)
        THEN [recommended |-> "when_charging", reason |-> "Battery too low"]
        ELSE IF ~is_thermal_ok
        THEN [recommended |-> "after_cooling", reason |-> "Device needs cooling"]
        ELSE IF 1 <= current_hour /\ current_hour <= 6
        THEN [recommended |-> "now", reason |-> "Low-load window (night time)"]
        ELSE [recommended |-> "deferred",
              reason |-> "Suboptimal conditions, defer if possible"]

WindowSensors ==
    {NoBattery} \cup
    {[percent |-> p, power_plugged |-> b, secsleft |-> 3600] :
        p \in {0, 19000, 20000, 50000, 51000, 100000}, b \in BOOLEAN}
\* power_monitor.py:53-60
WindowStatuses == {"normal", "warning", "throttling", "unknown"}
\* time.localtime().tm_hour
Hours == 0 .. 23

InitWindow ==
    /\ clock = 0
    /\ battery = NoBattery
    /\ thermal = "normal"
    /\ task_queue = <<>>
    /\ is_running = FALSE
    /\ scheduler_thread = NoThread
    /\ loops = [l \in LoopIds |-> Unborn]
    /\ ctl = [c \in Controllers |-> Idle]
    /\ history = <<>>
    /\ calls = <<>>
    /\ dequeued = <<>>
    /\ probe = [phase |-> "window", subs |-> <<>>]

\* scheduler.py:192-234
Recommend(sensor, status, current_hour) ==
    /\ probe.phase = "window"
    /\ Len(probe.subs) < 1
    /\ LET state  == GetCurrentBatteryState(sensor)
           window == GetOptimalExecutionTime(sensor, status, current_hour)
       IN  probe' = [probe EXCEPT !.subs = Append(@,
               [plugged_in  |-> state.plugged_in,
                percent     |-> state.percent,
                status      |-> status,
                hour        |-> current_hour,
                recommended |-> window.recommended,
                reason      |-> window.reason])]
    /\ UNCHANGED <<clock, battery, thermal, task_queue, is_running,
                   scheduler_thread, loops, ctl, history, calls, dequeued>>

NextWindow ==
    \E b \in WindowSensors, t \in WindowStatuses, h \in Hours :
        Recommend(b, t, h)

SpecWindow == InitWindow /\ [][NextWindow]_vars

\* ------------------------------------------ the power mode alone
\* power_monitor.py:150-170 applied to a battery reading and a thermal
\* status: probe.subs holds what one call reads and returns.

\* power_monitor.py:31-41: power_plugged, or False without a battery
IsPluggedIn(sensor) ==
    IF sensor # NoBattery THEN sensor.power_plugged ELSE FALSE

\* power_monitor.py:150-170
RecommendPowerMode(sensor, status) ==
    LET percent == GetBatteryPercent(sensor)
        plugged == IsPluggedIn(sensor)
    IN  IF plugged THEN "performance"
        ELSE IF Truthy(percent) /\ percent < Milli(20) THEN "ultra_low_power"
        ELSE IF status = "throttling" THEN "low_power"
        ELSE IF Truthy(percent) /\ percent < Milli(50) THEN "balanced"
        ELSE "performance"

\* every whole percent from 0 to 100, with and without the charger, and no
\* battery
ModeSensors ==
    {NoBattery} \cup
    {[percent |-> Milli(p), power_plugged |-> b, secsleft |-> 3600] :
        p \in 0 .. 100, b \in BOOLEAN}

InitMode ==
    /\ clock = 0
    /\ battery = NoBattery
    /\ thermal = "normal"
    /\ task_queue = <<>>
    /\ is_running = FALSE
    /\ scheduler_thread = NoThread
    /\ loops = [l \in LoopIds |-> Unborn]
    /\ ctl = [c \in Controllers |-> Idle]
    /\ history = <<>>
    /\ calls = <<>>
    /\ dequeued = <<>>
    /\ probe = [phase |-> "mode", subs |-> <<>>]

\* power_monitor.py:154-170
Advise(sensor, status) ==
    /\ probe.phase = "mode"
    /\ Len(probe.subs) < 1
    /\ probe' = [probe EXCEPT !.subs = Append(@,
           [percent    |-> GetBatteryPercent(sensor),
            plugged_in |-> IsPluggedIn(sensor),
            status     |-> status,
            mode       |-> RecommendPowerMode(sensor, status)])]
    /\ UNCHANGED <<clock, battery, thermal, task_queue, is_running,
                   scheduler_thread, loops, ctl, history, calls, dequeued>>

NextMode ==
    \E b \in ModeSensors, t \in WindowStatuses : Advise(b, t)

SpecMode == InitMode /\ [][NextMode]_vars

\* --------------------------------------------- the estimated drain alone
\* predictor.py:37-40 applied to descriptions of any sign: probe.subs holds
\* what one predict_drain() call computes.

\* the values a description's field can hold, in thousandths: negative, zero,
\* the default's order of size, and large enough to reach the upper clamp
DrainValues == {-2000, 0, 1000, 30000}
DrainDescriptions ==
    {[compute_ops |-> c, memory_mb |-> m, duration_seconds |-> d] :
        c \in DrainValues, m \in DrainValues, d \in DrainValues}
DrainSensors ==
    {NoBattery} \cup
    {[percent |-> Milli(p), power_plugged |-> b, secsleft |-> 3600] :
        p \in {0, 10, 80}, b \in BOOLEAN}

InitDrain ==
    /\ clock = 0
    /\ battery = NoBattery
    /\ thermal = "normal"
    /\ task_queue = <<>>
    /\ is_running = FALSE
    /\ scheduler_thread = NoThread
    /\ loops = [l \in LoopIds |-> Unborn]
    /\ ctl = [c \in Controllers |-> Idle]
    /\ history = <<>>
    /\ calls = <<>>
    /\ dequeued = <<>>
    /\ probe = [phase |-> "drain", subs |-> <<>>]

\* predictor.py:37-40
Estimate(task_description, sensor) ==
    /\ probe.phase = "drain"
    /\ Len(probe.subs) < 1
    /\ LET state == GetCurrentBatteryState(sensor)
       IN  probe' = [probe EXCEPT !.subs = Append(@,
               [description     |-> task_description,
                percent         |-> state.percent,
                plugged_in      |-> state.plugged_in,
                estimated_drain |->
                    RunPrediction(ExtractFeatures(task_description), state)])]
    /\ UNCHANGED <<clock, battery, thermal, task_queue, is_running,
                   scheduler_thread, loops, ctl, history, calls, dequeued>>

NextDrain ==
    \E d \in DrainDescriptions, b \in DrainSensors : Estimate(d, b)

SpecDrain == InitDrain /\ [][NextDrain]_vars

\* ------------------------------------------- the drain a task is charged
\* The scheduler of Spec on a device whose battery reading moves between no
\* battery, 0 percent and two readings above it while tasks are executed.

MeterSensors ==
    {NoBattery} \cup
    {[percent |-> Milli(p), power_plugged |-> FALSE, secsleft |-> 3600] :
        p \in {0, 15, 80}}

\* scheduler.py:15-22
InitMeter ==
    /\ clock = 0
    /\ battery \in MeterSensors
    /\ thermal = "normal"
    /\ task_queue = <<>>
    /\ is_running = FALSE
    /\ scheduler_thread = NoThread
    /\ loops = [l \in LoopIds |-> Unborn]
    /\ ctl = [c \in Controllers |-> Idle]
    /\ history = <<>>
    /\ calls = <<>>
    /\ dequeued = <<>>
    /\ probe = NoProbe

MeterChange ==
    /\ battery' \in MeterSensors \ {battery}
    /\ UNCHANGED <<clock, thermal, task_queue, is_running, scheduler_thread,
                   loops, ctl, history, calls, dequeued, probe>>

NextMeter ==
    \/ MeterChange
    \/ \E f \in Funcs, p \in Priorities, d \in Descriptions,
          now \in 0 .. MaxClock : Schedule(f, p, d, now)
    \/ StartCheck("c1")
    \/ StartThread("c1")
    \/ StopFlag("c1")
    \/ StopJoin("c1")
    \/ \E l \in LoopIds : LoopTest(l)
    \/ \E l \in LoopIds : LoopPoll(l)
    \/ \E l \in LoopIds : LoopGet(l)
    \/ \E l \in LoopIds : LoopExecuteEnd(l, "returned")
    \/ \E l \in LoopIds : LoopRequeue(l)

SpecMeter == InitMeter /\ [][NextMeter]_vars

\* ------------------------------------------------ the calibration history

\* predictor.py:160, record.get('predicted_drain', 0)
PredictedDrainOf(record) ==
    IF "predicted_drain" \in DOMAIN record THEN record.predicted_drain ELSE 0

Abs(x) == IF x < 0 THEN -x ELSE x
Max(a, b) == IF a > b THEN a ELSE b

\* predictor.py:158-162, the sum of the errors of the first n records
RECURSIVE SumErrors(_, _)
SumErrors(log, n) ==
    IF n = 0 THEN 0
    ELSE Abs(PredictedDrainOf(log[n]) - log[n].actual_drain)
             + SumErrors(log, n - 1)

\* predictor.py:150-166, in thousandths (the mean rounded down)
GetPredictionAccuracy(log) ==
    IF Len(log) < 2 THEN 0
    ELSE Max(0, Milli(100) - (SumErrors(log, Len(log)) * 10) \div Len(log))

\* --------------------------------------- a device whose state keeps moving
\* The scheduler of Spec on a device whose battery reading and thermal status
\* both change while tasks wait in the queue and in the deferral sleep; the
\* schedule() calls come one clock tick apart.

\* power_monitor.py:43-67: the thermal status read changes
ThermalChange ==
    /\ thermal' \in {"normal", "throttling"} \ {thermal}
    /\ UNCHANGED <<clock, battery, task_queue, is_running, scheduler_thread,
                   loops, ctl, history, calls, dequeued, probe>>

NextMoving ==
    \/ BatteryChange
    \/ ThermalChange
    \/ \E f \in Funcs, p \in Priorities, d \in Descriptions :
          Schedule(f, p, d, clock + 1)
    \/ StartCheck("c1")
    \/ StartThread("c1")
    \/ StopFlag("c1")
    \/ StopJoin("c1")
    \/ \E l \in LoopIds : LoopTest(l)
    \/ \E l \in LoopIds : LoopPoll(l)
    \/ \E l \in LoopIds : LoopGet(l)
    \/ \E l \in LoopIds : LoopExecuteEnd(l, "returned")
    \/ \E l \in LoopIds : LoopRequeue(l)

SpecMoving == InitBodies /\ [][NextMoving]_vars

\* -------------------------------------------- a scheduler that stays running
\* A throttling device: critical tasks are admitted, high ones denied and put
\* back after each deferral sleep.  The scheduler is started and never
\* stopped; up to MaxSubmitLive schedule() calls come one clock tick apart;
\* the task bodies return.
NextLive ==
    \/ \E f \in Funcs, p \in {"critical", "high"}, d \in Descriptions :
          ScheduleWithin(f, p, d, clock + 1, MaxSubmitLive, MaxSubmitLive)
    \/ StartCheck("c1")
    \/ StartThread("c1")
    \/ \E l \in LoopIds : LoopTest(l)
    \/ \E l \in LoopIds : LoopPoll(l)
    \/ \E l \in LoopIds : LoopGet(l)
    \/ \E l \in LoopIds : LoopExecuteEnd(l, "returned")
    \/ \E l \in LoopIds : LoopRequeue(l)

SpecLive == InitDefer /\ [][NextLive]_vars

\* The loop thread is scheduled: when it can take its next step it takes it
\* (a task body returns, a sleep ends), and a start() past its test goes on
\* to start the thread.  The callers owe no further call.
FairLive ==
    /\ \A l \in LoopIds :
           /\ WF_vars(LoopTest(l))
           /\ WF_vars(LoopPoll(l))
           /\ WF_vars(LoopGet(l))
           /\ WF_vars(LoopExecuteEnd(l, "returned"))
           /\ WF_vars(LoopRequeue(l))
    /\ WF_vars(StartThread("c1"))

SpecLiveFair == SpecLive /\ FairLive

\* ------------------------------------------------------------- claims

ProbeSubs == IF probe.phase = "rules" THEN probe.subs ELSE <<>>
Evaluated == {ProbeSubs[i] : i \in DOMAIN ProbeSubs}

\* C6: a critical submission is admitted, with the reason "Critical priority
\* overrides constraints" (the program's spelling of the reason), whatever the
\* battery percent, the safe_to_execute flag and the thermal status.
C6_CriticalAlwaysAdmitted ==
    \A s \in Evaluated :
        s.priority = "critical" =>
            /\ s.should_execute
            /\ s.reason = "Critical priority overrides constraints"

\* a critical submission evaluated below 20 percent, unsafe, while throttling
C6_Witness ==
    \E s \in Evaluated :
        /\ s.priority = "critical"
        /\ s.prediction.current_battery_percent < Milli(20)
        /\ ~s.prediction.safe_to_execute
        /\ s.status = "throttling"
        /\ s.should_execute

\* C7: for a priority other than critical the first rule that matches decides:
\* below 20 percent "Battery below threshold", else unsafe "Predicted drain too
\* high", else throttling "Thermal throttling detected", else admitted with
\* "All checks passed".
C7_OrderedRules ==
    \A s \in Evaluated :
        s.priority # "critical" =>
            <<s.should_execute, s.reason>> =
                CASE s.prediction.current_battery_percent < Milli(20)
                        -> <<FALSE, "Battery below threshold">>
                  [] s.prediction.current_battery_percent >= Milli(20)
                     /\ ~s.prediction.safe_to_execute
                        -> <<FALSE, "Predicted drain too high">>
                  [] s.prediction.current_battery_percent >= Milli(20)
                     /\ s.prediction.safe_to_execute
                     /\ s.status = "throttling"
                        -> <<FALSE, "Thermal throttling detected">>
                  [] OTHER -> <<TRUE, "All checks passed">>

\* a high submission whose prediction is unsafe at 20 percent or more while the
\* device throttles: two rules match, and the drain rule is the first
C7_Witness ==
    \E s \in Evaluated :
        /\ s.priority = "high"
        /\ s.prediction.current_battery_percent >= Milli(20)
        /\ ~s.prediction.safe_to_execute
        /\ s.status = "throttling"
        /\ s.reason = "Predicted drain too high"

Urgency(priority) ==
    CASE priority = "critical" -> 0
      [] priority = "high"     -> 1
      [] priority = "normal"   -> 2
      [] priority = "low"      -> 3

\* C8: of two submissions of different classes, the one of the more urgent
\* class (critical, high, normal, low in that order) gets the strictly smaller
\* priority value, whatever the safe_to_execute flag of either.
C8_BiasKeepsClassOrder ==
    \A a, b \in Evaluated :
        /\ a.priority \in {"critical", "high", "normal", "low"}
        /\ b.priority \in {"critical", "high", "normal", "low"}
        /\ Urgency(a.priority) < Urgency(b.priority)
        => a.priority_value < b.priority_value

\* an unsafe submission next to a safe one of the next class down
C8_Witness ==
    \E a, b \in Evaluated :
        /\ a.priority = "high" /\ ~a.prediction.safe_to_execute
        /\ b.priority = "normal" /\ b.prediction.safe_to_execute
        /\ a.priority_value = 10 /\ b.priority_value = 45

\* the entries in the queue
Queued == {task_queue[i] : i \in DOMAIN task_queue}

\* the entries a loop thread holds: the task it executes or sleeps on
Held ==
    {[key |-> loops[l].priority, task |-> loops[l].task] :
        l \in {k \in LoopIds : loops[k].pc \in {"execute", "sleep"}}}

\* C1: the ids that schedule() calls return differ from call to call.
\* Violated: two calls in the same millisecond return the same id.
C1_ReturnedIdsDiffer ==
    \A i, j \in DOMAIN calls :
        i # j /\ ~calls[i].raised /\ ~calls[j].raised
        => calls[i].id # calls[j].id

\* C2: for every task id the loop invokes a task body at most once.
\* Violated: the two tasks of C1's calls have one id and both are invoked.
C2_InvokedOncePerId ==
    \A i, j \in DOMAIN dequeued :
        i # j /\ dequeued[i].invoked /\ dequeued[j].invoked
        => dequeued[i].id # dequeued[j].id

\* What the loop does keep: the task of one schedule() call is invoked at most
\* once.
InvokedOncePerCall ==
    \A i, j \in DOMAIN dequeued :
        i # j /\ dequeued[i].invoked /\ dequeued[j].invoked
        => dequeued[i].seq # dequeued[j].seq

\* C3: the queue holds at most one entry of any task id.
\* Violated: the two tasks of C1's calls are queued together.
C3_QueueIdsDiffer ==
    \A i, j \in DOMAIN task_queue :
        i # j => task_queue[i].task.id # task_queue[j].task.id

\* nothing has been taken from the queue: no get() has returned or raised
NothingDequeued ==
    /\ dequeued = <<>>
    /\ \A l \in LoopIds : loops[l].pc # "crashed"

\* C4: while nothing is dequeued, every schedule() call has returned an id and
\* the queue holds one entry per call.
\* Violated: a call whose task ties with a queued one raises TypeError.
C4_EveryCallQueuesAndReturns ==
    NothingDequeued =>
        /\ \A i \in DOMAIN calls : ~calls[i].raised
        /\ Len(task_queue) = Len(calls)

\* C5: a tie of two priority values fails neither put nor get, and the entries
\* of one key leave the queue in the order of their schedule() calls.
\* Violated: the put of a task that ties with a queued one raises TypeError.
C5_TiesAreFifo ==
    /\ \A i \in DOMAIN calls : ~calls[i].raised
    /\ \A l \in LoopIds : loops[l].pc # "crashed"
    /\ \A i, j \in DOMAIN dequeued :
           i < j /\ dequeued[i].key = dequeued[j].key
                 /\ dequeued[i].seq # dequeued[j].seq
           => dequeued[i].seq < dequeued[j].seq

\* C9 as claimed: no priority value, of a task or of the key it is queued
\* under, is negative.
\* Violated: a critical task with a safe prediction gets 0 - 5.
C9_PriorityNonNegative ==
    \A e \in Queued \cup Held : e.key >= 0 /\ e.task.priority >= 0

\* C9 as amended: the priority value of every task, at submission and after
\* any number of deferral cycles, is an integer of at least -5; it is negative
\* only for a critical task whose prediction is safe, where it is -5.
C9_PriorityAtLeastMinusFive ==
    \A e \in Queued \cup Held :
        /\ e.key \in Int /\ e.task.priority \in Int
        /\ e.key >= e.task.priority
        /\ e.task.priority >= -5
        /\ e.task.priority < 0 =>
              /\ e.task.priority = -5
              /\ e.task.reason = "Critical priority overrides constraints"
              /\ e.task.prediction.safe_to_execute

\* a critical task queued under -5 beside a task put back after a deferral
C9_Witness ==
    /\ \E e \in Queued : e.key = -5
    /\ \E e \in Queued : e.key > e.task.priority

\* the step of loop l that ends the deferral sleep and puts the task back
PutsBack(l) == loops[l].pc = "sleep" /\ loops'[l].pc # "sleep"

\* C10: the task a loop puts back after a deferral has its admission evaluated
\* again, against the battery and the thermal status of that moment.
\* Violated: the task is put back with the admission of its schedule() call.
C10_PutBackReevaluates ==
    [][\A l \in LoopIds : PutsBack(l) =>
        \E i \in DOMAIN task_queue' :
            /\ task_queue'[i].task.seq = loops[l].task.seq
            /\ task_queue'[i].key = loops[l].priority + 1
            /\ \A p \in {"high", "normal", "low"} :
                  task_queue'[i].task.should_execute =
                      ApplySchedulingRules(
                          PredictDrain(loops[l].task.description, battery),
                          p, thermal).admitted]_vars

\* the value of a low task whose prediction is safe: the least a low task gets
LowTier == PriorityMap("low") - SafeBias

\* C11: a denied task of the low class (priority value 95 or 100) that the
\* loop dequeues is dequeued once, its body is not invoked, and it is neither
\* put back into the queue nor held by a loop through a deferral sleep.
C11_DeniedLowIsDropped ==
    \A i \in DOMAIN dequeued :
        dequeued[i].key >= LowTier /\ ~dequeued[i].invoked =>
            /\ dequeued[i].body = "none"
            /\ \A e \in Queued \cup Held : e.task.seq # dequeued[i].seq
            /\ \A j \in DOMAIN dequeued :
                   j # i => dequeued[j].seq # dequeued[i].seq

\* a low task denied under 95 (safe, the device throttling) was dequeued and
\* the loop has gone on to dequeue another task
C11_Witness ==
    \E i, j \in DOMAIN dequeued :
        /\ i < j
        /\ dequeued[i].key = 95 /\ ~dequeued[i].invoked
        /\ \A l \in LoopIds : loops[l].pc # "crashed"

\* the loop threads that have been started and have not ended
Alive == {l \in LoopIds : ~Dead(l)}

\* C12: at most one thread runs _scheduler_loop at any time, whatever the
\* interleaving of the start() and stop() calls of several callers.
\* Violated: two start() calls both pass the test of line 28 before either
\* sets the flag, or a start() follows another caller's stop() before the loop
\* has seen the flag cleared; either way a second thread is started.
C12_OneLoop == Cardinality(Alive) <= 1

\* the loops inside a task body
Executing == {l \in LoopIds : loops[l].pc = "execute"}

\* C13: at most one task body is executing at any time.
\* Violated: the two loop threads of C12 each execute a task.
C13_OneBodyAtATime == Cardinality(Executing) <= 1

\* The flag is clear and no start() or stop() call is in progress: a stop()
\* has returned (or no start() was ever called) and no start() has set the
\* flag since.
Stopped == ~is_running /\ \A c \in Controllers : ctl[c].pc = "idle"

\* C14: a loop inside a task body leaves it only by the body's end, with the
\* drain recorded, and goes back to the head of the loop (it does not exit
\* from inside the body); and while the scheduler is stopped no loop starts
\* a task body.
\* Violated: of the two loop threads of C12, stop() joins the one in
\* scheduler_thread only; the other, past the test of line 136, dequeues and
\* executes a task after stop() has returned.
C14_StopLetsBodyEndAndNoneStart ==
    [][/\ \A l \in Executing :
             loops'[l].pc # "execute" =>
                 /\ loops'[l].pc = "while"
                 /\ Len(history') = Len(history) + 1
       /\ Stopped => Executing' \subseteq Executing]_vars

\* What one caller of start() and stop() does keep: while the scheduler is
\* stopped no loop thread is alive.
StoppedLeavesNoLoop == Stopped => Alive = {}

\* a loop holds a task whose deferral cycles have reached MaxDefer
DeferralsSpent ==
    \E l \in LoopIds :
        /\ loops[l].pc = "sleep"
        /\ loops[l].priority - loops[l].task.priority >= MaxDefer

\* C15: a stop() that has cleared the flag and waits in join returns: the loop
\* it waits for sees the flag and exits (or the behaviour has spent its
\* deferral cycles), whatever schedule() and start() calls run beside it.
\* Violated: a start() of another caller sets the flag again before the loop
\* has tested it; the loop never sees it clear and the join never returns.
C15_StopReturns ==
    \A c \in Controllers :
        ctl[c].pc = "join" ~> (ctl[c].pc = "idle" \/ DeferralsSpent)

\* What one caller of start() and stop() does keep, under SpecBodiesFair: its
\* stop() returns.
OneCallerStopReturns ==
    ctl["c1"].pc = "join" ~> (ctl["c1"].pc = "idle" \/ DeferralsSpent)

\* a loop thread is inside a task body or inside the sleep of a deferral
Busy == \E l \in LoopIds : loops[l].pc \in {"execute", "sleep"}

\* some schedule() call
SomeSchedule ==
    \E f \in Funcs, p \in Priorities, d \in Descriptions, now \in 0 .. MaxClock :
        Schedule(f, p, d, now)

\* C16: while a loop thread is inside a task body or a deferral sleep, a
\* schedule() call can take place (as long as MaxSubmit calls have not been
\* made); one that does leaves the loop where it is, its entry is in the queue
\* when it ends, and the id it returns is that entry's.
C16_SubmitNeverWaits ==
    /\ [](Busy /\ Len(calls) < MaxSubmit => ENABLED SomeSchedule)
    /\ [][Busy /\ Len(calls') > Len(calls) =>
              /\ loops' = loops
              /\ \E i \in DOMAIN task_queue' :
                    /\ task_queue'[i].task.seq = Len(calls')
                    /\ ~calls'[Len(calls')].raised =>
                          calls'[Len(calls')].id = task_queue'[i].task.id]_vars

\* the loop is inside the body of the only task it has dequeued, a low one,
\* and a critical one is queued: had it been queued at the get it would have
\* been the one dequeued, so its schedule() call ran and returned meanwhile
C16_Witness ==
    /\ Len(dequeued) = 1 /\ dequeued[1].key = LowTier
    /\ \E l \in LoopIds :
          loops[l].pc = "execute" /\ loops[l].task.seq = dequeued[1].seq
    /\ \A l \in LoopIds : loops[l].pc # "crashed"
    /\ \E e \in Queued : e.key = -SafeBias
    /\ \A i \in DOMAIN calls : ~calls[i].raised

\* the same with the loop inside the sleep of a deferred high task
SubmittedDuringSleep ==
    /\ Len(dequeued) = 1 /\ ~dequeued[1].invoked
    /\ \E l \in LoopIds :
          loops[l].pc = "sleep" /\ loops[l].task.seq = dequeued[1].seq
    /\ \A l \in LoopIds : loops[l].pc # "crashed"
    /\ \E e \in Queued : e.key = -SafeBias
    /\ \A i \in DOMAIN calls : ~calls[i].raised

\* the step in which the body of the task loop l executes ends by raising
BodyRaises(l) ==
    /\ loops[l].pc = "execute"
    /\ \E i \in DOMAIN dequeued :
          /\ dequeued[i].seq = loops[l].task.seq
          /\ dequeued[i].body = "none"
          /\ dequeued'[i].body = "raised"

\* C17: when the body of an admitted task raises, the loop thread does not
\* end: it records the task's drain as for a body that returned, leaves the
\* queue and the flag as they are, and goes back to the head of the loop, from
\* where the queued tasks are dequeued as before.
C17_RaisingBodyIsCaught ==
    [][\A l \in LoopIds : BodyRaises(l) =>
          /\ loops'[l].pc = "while"
          /\ task_queue' = task_queue
          /\ is_running' = is_running
          /\ history' = Append(history,
                 [task_id |-> loops[l].task.id,
                  actual_drain |-> ActualDrain(loops[l].battery_before,
                                               GetBatteryPercent(battery))])]_vars

\* a body raised, and the same loop thread then dequeued another task and ran
\* its body to the end
C17_Witness ==
    /\ Len(dequeued) = 2 /\ Len(history) = 2
    /\ dequeued[1].body = "raised"
    /\ dequeued[2].seq # dequeued[1].seq
    /\ dequeued[2].body = "returned"
    /\ loops[1].pc = "while" /\ loops[2].pc = "unborn"

\* the priority strings of the map of scheduler.py:118-123
KnownClasses == {"critical", "high", "normal", "low"}

\* C18: a submission whose priority string is none of critical, high, normal,
\* low is evaluated without failing and gets what a normal submission gets
\* for the same prediction and thermal status: the same admission, the same
\* reason and the same priority value.
C18_UnknownClassIsNormal ==
    \A a, b \in Evaluated :
        /\ a.priority \notin KnownClasses
        /\ b.priority = "normal"
        /\ a.prediction = b.prediction
        /\ a.status = b.status
        => /\ a.should_execute = b.should_execute
           /\ a.reason = b.reason
           /\ a.priority_value = b.priority_value

\* an "urgent" and a normal submission with one prediction, both admitted
\* under 45
C18_Witness ==
    \E a, b \in Evaluated :
        /\ a.priority = "urgent" /\ b.priority = "normal"
        /\ a.prediction = b.prediction /\ a.status = b.status
        /\ a.should_execute /\ a.priority_value = 45
        /\ b.should_execute /\ b.priority_value = 45

SafeSubs == IF probe.phase = "safe" THEN probe.subs ELSE <<>>
Predicted == {SafeSubs[i] : i \in DOMAIN SafeSubs}

WindowSubs == IF probe.phase = "window" THEN probe.subs ELSE <<>>
Recommended == {WindowSubs[i] : i \in DOMAIN WindowSubs}

\* C20: the recommended window is now when plugged in, whatever the percent,
\* the thermal status and the hour; else now when the percent is above 50 and
\* the thermal status normal; else when_charging when the percent is below
\* 20; else after_cooling when the thermal status is not normal; else now in
\* the hours 1 to 6; else deferred.
C20_WindowTable ==
    \A w \in Recommended :
        w.recommended =
            CASE w.plugged_in -> "now"
              [] ~w.plugged_in /\ w.percent > Milli(50) /\ w.status = "normal"
                    -> "now"
              [] ~w.plugged_in
                 /\ ~(w.percent > Milli(50) /\ w.status = "normal")
                 /\ w.percent < Milli(20)
                    -> "when_charging"
              [] ~w.plugged_in /\ w.percent >= Milli(20)
                 /\ w.status # "normal"
                    -> "after_cooling"
              [] ~w.plugged_in /\ w.percent >= Milli(20)
                 /\ w.percent <= Milli(50) /\ w.status = "normal"
                 /\ w.hour \in 1 .. 6
                    -> "now"
              [] OTHER -> "deferred"

\* plugged in with an empty battery, throttling, at noon: now
C20_Witness ==
    \E w \in Recommended :
        /\ w.plugged_in /\ w.percent = 0
        /\ w.status = "throttling" /\ w.hour = 12
        /\ w.recommended = "now" /\ w.reason = "Device is plugged in"

ModeSubs == IF probe.phase = "mode" THEN probe.subs ELSE <<>>
Advised == {ModeSubs[i] : i \in DOMAIN ModeSubs}

\* C21: for every battery percent from 0 to 100 the recommended mode is
\* performance when plugged in; else ultra_low_power below 20 percent; else
\* low_power when throttling; else balanced below 50 percent; else
\* performance.
\* Violated: a reading of 0 percent is taken for no reading, and an unplugged
\* device at 0 percent is given performance (low_power when throttling).
C21_ModeTable ==
    \A m \in Advised :
        m.percent # NoneFloat =>
            m.mode =
                CASE m.plugged_in -> "performance"
                  [] ~m.plugged_in /\ m.percent < Milli(20) -> "ultra_low_power"
                  [] ~m.plugged_in /\ m.percent >= Milli(20)
                     /\ m.status = "throttling" -> "low_power"
                  [] ~m.plugged_in /\ m.percent >= Milli(20)
                     /\ m.status # "throttling"
                     /\ m.percent < Milli(50) -> "balanced"
                  [] OTHER -> "performance"

\* What the code does keep: the table for every percent from 1 to 100.
ModeTableAboveZero ==
    \A m \in Advised :
        m.percent # NoneFloat /\ m.percent > 0 =>
            m.mode =
                CASE m.plugged_in -> "performance"
                  [] ~m.plugged_in /\ m.percent < Milli(20) -> "ultra_low_power"
                  [] ~m.plugged_in /\ m.percent >= Milli(20)
                     /\ m.status = "throttling" -> "low_power"
                  [] ~m.plugged_in /\ m.percent >= Milli(20)
                     /\ m.status # "throttling"
                     /\ m.percent < Milli(50) -> "balanced"
                  [] OTHER -> "performance"

\* a stop() has cleared the flag and has not returned
Stopping == \E c \in Controllers : ctl[c].pc = "join"

\* C22: from the moment a stop() has cleared the flag until it returns, no
\* entry leaves the queue, and a loop that ends a deferral sleep in that time
\* puts its task back into the queue.
\* Violated: a loop that has passed the test of line 136 when the flag is
\* cleared goes on to dequeue an entry, and executes or drops it, before it
\* tests the flag again.
C22_StopDropsNoTask ==
    [][Stopping =>
          /\ \A e \in Queued : e \in Queued'
          /\ \A l \in LoopIds : PutsBack(l) =>
                 \E e \in Queued' : e.task.seq = loops[l].task.seq]_vars

\* What the loop does keep: a task held through a deferral sleep is put back
\* when the sleep ends, whether a stop() is waiting or not.
DeferredIsPutBack ==
    [][\A l \in LoopIds : PutsBack(l) =>
          \E e \in Queued' : e.task.seq = loops[l].task.seq]_vars

\* C23: the task a loop puts back after a deferral sleep goes back under its
\* key plus 1, and it is put back only if the value it was dequeued under is
\* below 50: under a key of 50 or more no task is put back.
\* Violated: the retry test reads the task's value of submission, which no
\* cycle changes; a normal task denied under 45 is put back under 46, 47 and
\* on past 50.
C23_RetryTestOnCurrentValue ==
    [][\A l \in LoopIds : PutsBack(l) =>
          /\ loops[l].priority < RetryBelow
          /\ \E e \in Queued' :
                /\ e.task.seq = loops[l].task.seq
                /\ e.key = loops[l].priority + 1]_vars

\* What the loop does keep: each cycle raises the key by exactly 1.
CycleRaisesKeyByOne ==
    [][\A l \in LoopIds : PutsBack(l) =>
          \E e \in Queued' :
              /\ e.task.seq = loops[l].task.seq
              /\ e.key = loops[l].priority + 1]_vars

\* C24: the entry a get() of the loop returns has the smallest key of the
\* entries the queue holds at that moment.
\* Violated: a get() that raises TypeError on a tie (C5) leaves the heap out
\* of order; after two such failures and restarts of the scheduler a get()
\* returns an entry while the queue holds one of a smaller key.
C24_DequeuesSmallestKey ==
    [][Len(dequeued') > Len(dequeued) =>
          \A e \in Queued : dequeued'[Len(dequeued')].key <= e.key]_vars

DrainSubs == IF probe.phase = "drain" THEN probe.subs ELSE <<>>
Estimated == {DrainSubs[i] : i \in DOMAIN DrainSubs}

\* C25: the estimated drain is within 0 to 10 percent inclusive, for every
\* task description, with zero and negative values among them, and every
\* battery state.
\* Violated: the estimate is cut at 10 percent from above and at nothing from
\* below; a description whose three features sum below zero gets a negative
\* estimate.
C25_DrainWithinRange ==
    \A e \in Estimated :
        /\ 0 <= e.estimated_drain
        /\ e.estimated_drain <= Milli(MaxDrainPercent)

\* What the code does keep: no estimate is above 10 percent, and none is
\* below zero when the description's features sum to zero or more.
DrainAtMostTen ==
    \A e \in Estimated :
        /\ e.estimated_drain <= Milli(MaxDrainPercent)
        /\ e.description.compute_ops + e.description.memory_mb
               + e.description.duration_seconds >= 0
           => e.estimated_drain >= 0

\* loop l ends the execution of its task in this step and records its drain
Records(l) ==
    /\ loops[l].pc = "execute"
    /\ Len(history') = Len(history) + 1

\* C26: the drain recorded for an executed task is the percent read before
\* the body minus the percent read after it whenever both readings are
\* available, a reading of exactly 0 percent among them, and it is the
\* substitute 0 only when a reading is unavailable.
\* Violated: line 169 tests the readings for truth, and 0.0 is false; a task
\* that starts at 80 percent and ends at 0 percent is charged 0, not 80.
C26_DrainIsBeforeMinusAfter ==
    [][\A l \in LoopIds : Records(l) =>
          LET before == loops[l].battery_before
              after  == GetBatteryPercent(battery)
              drain  == history'[Len(history')].actual_drain
          IN  IF before # NoneFloat /\ after # NoneFloat
              THEN drain = before - after
              ELSE drain = 0]_vars

\* What the code does keep: the difference when both readings are above 0
\* percent, and 0 when a reading is unavailable.
DrainIsDifferenceAboveZero ==
    [][\A l \in LoopIds : Records(l) =>
          LET before == loops[l].battery_before
              after  == GetBatteryPercent(battery)
              drain  == history'[Len(history')].actual_drain
          IN  /\ before > 0 /\ after > 0 => drain = before - after
              /\ before = NoneFloat \/ after = NoneFloat => drain = 0]_vars

\* C27: the admission rules admit every task when the device is plugged in,
\* whatever its priority class, the battery percent and the thermal status.
\* Violated: the rules never read the charger; a plugged-in device under 20
\* percent, or throttling, has its non-critical tasks denied.
C27_PluggedInIsAdmitted ==
    \A s \in Evaluated : s.plugged_in => s.should_execute

\* What the code does keep: on a plugged-in device the prediction is safe, and
\* a task is admitted when the battery is at 20 percent or more and the
\* device is not throttling.
PluggedInIsSafe ==
    \A s \in Evaluated :
        s.plugged_in =>
            /\ s.prediction.safe_to_execute
            /\ s.prediction.current_battery_percent >= Milli(RuleBatteryPercent)
               /\ s.status # "throttling" => s.should_execute

\* loop l ends the execution of its task in this step, the body's end caught
Completes(l) ==
    /\ loops[l].pc = "execute"
    /\ loops'[l].pc = "while"

\* C28: every executed task appends exactly one calibration record, which
\* pairs the drain predicted for the task at submission with the drain
\* observed at execution, so that the accuracy, 0 with fewer than 2 records,
\* is computed from the absolute differences of those pairs.
\* Violated: the record holds the task id and the observed drain and no
\* prediction; the accuracy reads a predicted drain of 0 for every record.
C28_RecordPairsPredictedWithObserved ==
    [][\A l \in LoopIds : Completes(l) =>
          /\ Len(history') = Len(history) + 1
          /\ LET record == history'[Len(history')]
             IN  /\ PredictedDrainOf(record) =
                        loops[l].task.prediction.estimated_drain_percent
                 /\ record.actual_drain =
                        ActualDrain(loops[l].battery_before,
                                    GetBatteryPercent(battery))
          /\ Len(history') < 2 => GetPredictionAccuracy(history') = 0]_vars

\* What the code does keep: one record for each executed task, with the
\* task's id and the observed drain, and an accuracy of 0 below 2 records.
RecordHoldsObserved ==
    [][\A l \in LoopIds : Completes(l) =>
          /\ Len(history') = Len(history) + 1
          /\ LET record == history'[Len(history')]
             IN  /\ record.task_id = loops[l].task.id
                 /\ record.actual_drain =
                        ActualDrain(loops[l].battery_before,
                                    GetBatteryPercent(battery))
          /\ Len(history') < 2 => GetPredictionAccuracy(history') = 0]_vars

\* What the accuracy is computed from: the observed drains alone, each one
\* counted as an error in full.
AccuracyReadsObservedAlone ==
    Len(history) = 2 =>
        GetPredictionAccuracy(history) =
            Max(0, Milli(100)
                   - ((Abs(history[1].actual_drain)
                       + Abs(history[2].actual_drain)) * 10) \div 2)

\* the fields of a task that hold its admission
Admission(task) ==
    [should_execute |-> task.should_execute, reason |-> task.reason,
     prediction |-> task.prediction]

\* the rules applied now to a non-critical task of the default description
AdmitsNow ==
    ApplySchedulingRules(PredictDrain(DefaultDescription, battery),
                         "normal", thermal).admitted

\* C29: a task denied at submit time is never executed: dequeue, deferral and
\* re-enqueue leave its admitted flag, reason and prediction as they are, a
\* loop executes no task whose flag is false, and a task that was dequeued
\* without being invoked is not invoked when it is dequeued again, whatever
\* the battery and the thermal status have become.
C29_DeniedIsNeverExecuted ==
    [][/\ \A e \in Queued' \cup Held' : \A f \in Queued \cup Held :
              e.task.seq = f.task.seq => Admission(e.task) = Admission(f.task)
       /\ \A l \in LoopIds :
              loops'[l].pc = "execute" => loops'[l].task.should_execute
       /\ \A i, j \in DOMAIN dequeued' :
              /\ i < j
              /\ dequeued'[i].seq = dequeued'[j].seq
              /\ ~dequeued'[i].invoked
              => ~dequeued'[j].invoked /\ dequeued'[j].body = "none"]_vars

\* C29's case: a task was denied, deferred and put back, the battery and the
\* thermal status have come to admit it, and it is dequeued again and not
\* invoked.
C29_Witness ==
    /\ AdmitsNow
    /\ \E i, j \in DOMAIN dequeued :
           /\ i < j /\ j = Len(dequeued)
           /\ dequeued[i].seq = dequeued[j].seq
           /\ ~dequeued[i].invoked /\ ~dequeued[j].invoked
    /\ \E l \in LoopIds : loops[l].pc = "sleep"

\* the schedule() call of number s has put an admitted task that is queued
AdmittedQueued(s) ==
    \E e \in Queued : e.task.seq = s /\ e.task.should_execute

\* the body of the task of schedule() call number s has been invoked
Invoked(s) ==
    \E i \in DOMAIN dequeued : dequeued[i].seq = s /\ dequeued[i].invoked

\* a loop thread has ended on an exception
Crashed == \E l \in LoopIds : loops[l].pc = "crashed"

\* C30: while the scheduler is running and the task bodies return, an
\* admitted task that is in the queue is eventually executed (or the
\* behaviour has spent its deferral cycles), whatever denied tasks are put
\* back beside it, those whose raised key meets the key of another queued
\* task among them.
\* Violated: a denied task put back under a key another queued task has makes
\* the put compare the task dicts (C5); the TypeError ends the loop thread
\* with the flag still set, and an admitted task in the queue is never
\* executed.
C30_AdmittedIsExecuted ==
    \A s \in 1 .. MaxSubmitLive :
        (is_running /\ AdmittedQueued(s)) ~> (Invoked(s) \/ DeferralsSpent)

\* What the loop does keep: an admitted task in the queue of a running
\* scheduler is executed unless the loop thread has ended on an exception.
AdmittedIsExecutedOrLoopEnded ==
    \A s \in 1 .. MaxSubmitLive :
        (is_running /\ AdmittedQueued(s))
            ~> (Invoked(s) \/ DeferralsSpent \/ Crashed)

====
